---- MODULE Spec2Model ----
(***************************************************************************)
(* Model of charly_post.py, the FreeCAD Path post-processor for the        *)
(* Charly robot: export() walks a tree of path objects, parse() turns      *)
(* every command into text lines and drill_translate() expands the         *)
(* drilling cycles G81/G82/G83 into G0/G1 moves.                            *)
(*                                                                         *)
(* Lengths are integers in millimetres (FreeCAD's internal length unit),   *)
(* velocities integers in mm/s.  A printed number is kept as the pair      *)
(* (v, d): the decimal number v / 10^d printed with d decimals, so that    *)
(* format(x, '.3f') of 2 mm is (2000, 3) and of 2 mm in inches (79, 3).    *)
(* A text is a sequence of lines; a line is a record                       *)
(*   n    the number printed by linenumber() in front of it (NoNum: none)  *)
(*   toks the tokens, joined by COMMAND_SPACE by format_outstring()        *)
(*   nl   whether the piece of text ends with "\n"                         *)
(*   org  which statement of the program produced it                       *)
(* CURRENT_X/Y/Z hold the int 0 of the module until a motion command       *)
(* stores a Quantity in them; CURRENT_IS_QUANTITY tells which they hold.   *)
(* The int compares with a Quantity as the number 0 and prints as 0, but   *)
(* it cannot be added to a Quantity (TypeError) and has no getValueAs()    *)
(* (AttributeError).                                                       *)
(***************************************************************************)
EXTENDS Integers, Sequences, FiniteSets, TLC

VARIABLES
    \* module globals set by processArguments()
    OUTPUT_HEADER, OUTPUT_COMMENTS, OUTPUT_LINE_NUMBERS, PRECISION,
    PREAMBLE, POSTAMBLE,
    \* module globals of the emitter
    LINENR, START_OR_M6, DRILL_RETRACT_MODE, MOTION_MODE,
    UNITS, UNIT_FORMAT, UNIT_SPEED_FORMAT,
    CURRENT_X, CURRENT_Y, CURRENT_Z, CURRENT_IS_QUANTITY,
    \* export(): position in the function, text built so far, file written
    pc, gcode, file,
    \* parse(): the leaf's local buffer, whether it was rebound to a list,
    \* the leaf's lastcommand, the number of compounds being walked
    out, outIsList, lastcommand, depth,
    \* drill_translate() inside the G83 loop
    trBuff, next_Stop_Z, drill,
    \* bookkeeping of the walk: objects and commands visited so far
    nnodes, ncmds,
    \* history: the last step taken and what it saw and produced
    last,
    \* history of the run: tool change pending, position at the tool change
    tcPending, tcPos,
    \* history of the run: the command processed before, in execution order over
    \* the whole tree, and whether it belongs to the leaf being walked
    prev,
    \* two exports in one process: run number, recorded inputs, first text
    twice, run, script, idx, file1

globalsArgs == <<OUTPUT_HEADER, OUTPUT_COMMENTS, OUTPUT_LINE_NUMBERS, PRECISION,
                 PREAMBLE, POSTAMBLE>>
globalsUnits == <<UNITS, UNIT_FORMAT, UNIT_SPEED_FORMAT>>
globalsPos == <<CURRENT_X, CURRENT_Y, CURRENT_Z, CURRENT_IS_QUANTITY>>
drillVars == <<trBuff, next_Stop_Z, drill>>
replayVars == <<twice, run, script, idx, file1>>
vars == <<OUTPUT_HEADER, OUTPUT_COMMENTS, OUTPUT_LINE_NUMBERS, PRECISION,
          PREAMBLE, POSTAMBLE, LINENR, START_OR_M6, DRILL_RETRACT_MODE,
          MOTION_MODE, UNITS, UNIT_FORMAT, UNIT_SPEED_FORMAT,
          CURRENT_X, CURRENT_Y, CURRENT_Z, CURRENT_IS_QUANTITY, pc, gcode, file,
          out, outIsList, lastcommand, depth, trBuff, next_Stop_Z, drill,
          nnodes, ncmds, last, tcPending, tcPos, prev,
          twice, run, script, idx, file1>>

----------------------------------------------------------------------------
\* Bounds of the exploration.

\* commands processed in one export
MaxCmds == 3
\* objects (compounds, leaves, non-path things) visited in one export
MaxNodes == 2
\* nesting of compounds
MaxDepth == 1
\* turns of the G83 loop followed in one expansion
MaxPecks == 6

----------------------------------------------------------------------------
\* Customisation constants of the module.

LINENR_START == 10
LINEINCR == 10
DEFAULT_PRECISION == 3
OUTPUT_TOOL_CHANGE == TRUE
MODAL == TRUE
NoNum == -1
\* a --precision value that str() and format() cannot use as a number of digits
NotDigits == -1
None == "None"

MOTION_COMMANDS == {"G0", "G00", "G1", "G01", "G2", "G02", "G3", "G03"}
RAPID_MOVES == {"G0", "G00"}
MODAL_COMMANDS == {"G0", "G00", "G1", "G01"}
SUPPRESS_COMMANDS == {"G98", "G99", "G80", "G17", "G53", "G54", "G55", "G56",
                      "G57", "G58", "G59"}
TOOL_CHANGE_COMMANDS == {"M6", "M06"}
DRILL_CYCLES == {"G81", "G82", "G83"}
\* PRE_OPERATION, POST_OPERATION and TOOL_CHANGE are empty texts
PRE_OPERATION == << >>
POST_OPERATION == << >>
TOOL_CHANGE == << >>
\* the list that controls the order of the parameters
params == <<"X", "Y", "Z", "A", "B", "I", "J", "F", "S", "T", "Q", "R", "L", "P">>
DefaultPostamble == << [s |-> "M5", nl |-> TRUE], [s |-> "M2", nl |-> TRUE] >>

----------------------------------------------------------------------------
\* Numbers, units and tokens.

RECURSIVE Pow10(_)
Pow10(n) == IF n <= 0 THEN 1 ELSE 10 * Pow10(n - 1)

\* n / m rounded to the nearest integer (m > 0)
RoundDiv(n, m) == (2 * n + m) \div (2 * m)

\* Quantity(q, Length).getValueAs(unit), printed with d decimals: 1 in = 25.4 mm
LengthAs(q, unit, d) ==
    IF unit = "in" THEN RoundDiv(q * Pow10(d) * 10, 254) ELSE q * Pow10(d)

\* Quantity(q, Velocity).getValueAs(unit), printed with d decimals:
\* the internal unit is mm/s, the output unit mm/min or in/min
SpeedAs(q, unit, d) ==
    IF unit = "in/min" THEN RoundDiv(q * 60 * Pow10(d) * 10, 254)
    ELSE q * 60 * Pow10(d)

CodeTok(c) == [k |-> "code", s |-> c, v |-> 0, d |-> 0]
NumTok(letter, val, dec) == [k |-> "num", s |-> letter, v |-> val, d |-> dec]
RawTok(letter, val) == [k |-> "raw", s |-> letter, v |-> val, d |-> 0]
TextTok(t) == [k |-> "text", s |-> t, v |-> 0, d |-> 0]
OpenTok == TextTok("(")
CloseTok == TextTok(")")

Line(toks, org) == [n |-> NoNum, toks |-> toks, nl |-> TRUE, org |-> org]
Comment(t) == Line(<<TextTok(t)>>, "comment")

\* python's list.insert(i, x): an index past the end appends
ListInsert(s, i, x) ==
    IF i >= Len(s) THEN Append(s, x)
    ELSE SubSeq(s, 1, i) \o <<x>> \o SubSeq(s, i + 1, Len(s))

\* linenumber(), called once for each line of ls in order
\* (on: OUTPUT_LINE_NUMBERS, nr: LINENR at the first call)
linenumber(ls, nr, on) ==
    [i \in 1..Len(ls) |->
        [ls[i] EXCEPT !.n = IF on THEN nr + (i - 1) * LINEINCR ELSE NoNum]]
\* a variant of LineNrAfter that counts the lines written without a number too
LineNrAfterAlways(ls, nr, on) == nr + Len(ls) * LINEINCR
\* LINENR after those calls
LineNrAfter(ls, nr, on) ==
    IF on THEN nr + Len(ls) * LINEINCR ELSE nr

----------------------------------------------------------------------------
\* parse(): one command of a leaf.

NoParams == [x \in {} |-> 0]
NoCmd == [Name |-> "", Parameters |-> NoParams]

\* lines 324-327: the unit codes of the dialect
Translate(name) ==
    IF name = "G21" THEN "G71" ELSE IF name = "G20" THEN "G70" ELSE name

\* a variant of ModalOmit that takes only the rapid moves as modal
ModalOmitRapidOnly(command, lastc) ==
    MODAL /\ command = lastc /\ command \in RAPID_MOVES

\* lines 345-346: the command is the leaf's previous one and is modal
ModalOmit(command, lastc) ==
    MODAL /\ command = lastc /\ command \in MODAL_COMMANDS

\* lines 329-347: outstring before the parameters are added
FirstTokens(command, lastc) ==
    LET base == IF command \in TOOL_CHANGE_COMMANDS /\ ~OUTPUT_TOOL_CHANGE
                THEN <<OpenTok, CodeTok(command), CloseTok>>
                ELSE <<CodeTok(command)>>
    IN  IF ModalOmit(command, lastc) THEN Tail(base) ELSE base

\* a variant of ParamToken that takes the command's own end point, where it
\* has one, as the base of I and J
ParamTokenArcEnd(param, P, command) ==
    IF param \notin DOMAIN P THEN << >>
    ELSE IF param = "I"
    THEN <<NumTok("I", LengthAs(P["I"] + (IF "X" \in DOMAIN P THEN P["X"] ELSE CURRENT_X),
                                UNIT_FORMAT, PRECISION), PRECISION)>>
    ELSE IF param = "J"
    THEN <<NumTok("J", LengthAs(P["J"] + (IF "Y" \in DOMAIN P THEN P["Y"] ELSE CURRENT_Y),
                                UNIT_FORMAT, PRECISION), PRECISION)>>
    ELSE IF param = "F"
    THEN IF command \notin RAPID_MOVES /\ P["F"] > 0
         THEN <<NumTok("F", SpeedAs(P["F"], UNIT_SPEED_FORMAT, PRECISION), PRECISION)>>
         ELSE << >>
    ELSE IF param \in {"T", "H", "D", "S", "P", "L"}
    THEN <<RawTok(param, P[param])>>
    ELSE IF param \in {"A", "B", "C"}
    THEN <<NumTok(param, P[param] * Pow10(PRECISION), PRECISION)>>
    ELSE <<NumTok(param, LengthAs(P[param], UNIT_FORMAT, PRECISION), PRECISION)>>

\* lines 351-371: the text of one parameter
ParamToken(param, P, command) ==
    IF param \notin DOMAIN P THEN << >>
    ELSE IF param = "I"
    THEN <<NumTok("I", LengthAs(P["I"] + CURRENT_X, UNIT_FORMAT, PRECISION), PRECISION)>>
    ELSE IF param = "J"
    THEN <<NumTok("J", LengthAs(P["J"] + CURRENT_Y, UNIT_FORMAT, PRECISION), PRECISION)>>
    ELSE IF param = "F"
    THEN IF command \notin RAPID_MOVES /\ P["F"] > 0
         THEN <<NumTok("F", SpeedAs(P["F"], UNIT_SPEED_FORMAT, PRECISION), PRECISION)>>
         ELSE << >>
    ELSE IF param \in {"T", "H", "D", "S", "P", "L"}
    THEN <<RawTok(param, P[param])>>
    ELSE IF param \in {"A", "B", "C"}
    THEN <<NumTok(param, P[param] * Pow10(PRECISION), PRECISION)>>
    ELSE <<NumTok(param, LengthAs(P[param], UNIT_FORMAT, PRECISION), PRECISION)>>

\* lines 350-371: the parameters in the order of params, from the i-th on
RECURSIVE ParamTokens(_, _, _)
ParamTokens(i, P, command) ==
    IF i > Len(params) THEN << >>
    ELSE ParamToken(params[i], P, command) \o ParamTokens(i + 1, P, command)

\* whether the parameter loop calls format() with precision_string
ParamsFormat(P, command) ==
    \E q \in DOMAIN P :
        /\ q \notin {"T", "H", "D", "S", "P", "L"}
        /\ q = "F" => (command \notin RAPID_MOVES /\ P["F"] > 0)

\* lines 379-381: a motion command without parameters loses its line
DropEmptyMotion(os, P) == IF DOMAIN P = {} THEN << >> ELSE os

\* lines 386-391: the cached position after a motion command
StorePosition(P, axis, old) == IF axis \in DOMAIN P THEN P[axis] ELSE old
\* lines 386-391: the axes that hold a Quantity after a motion command
StoreQuantity(P, old) ==
    [a \in {"X", "Y", "Z"} |-> IF a \in DOMAIN P THEN TRUE ELSE old[a]]
\* lines 354 and 357: a Quantity plus the int 0 of the module is a TypeError
ArcCentreTypeError(P) ==
    \/ "I" \in DOMAIN P /\ ~CURRENT_IS_QUANTITY["X"]
    \/ "J" \in DOMAIN P /\ ~CURRENT_IS_QUANTITY["Y"]

\* a variant of InjectAxes that forgets the Z axis
InjectAxesNoZ(os, P, x, y, z) ==
    LET s1 == IF "X" \notin DOMAIN P
              THEN ListInsert(os, 1, NumTok("X", x * Pow10(PRECISION), PRECISION))
              ELSE os
    IN  IF "Y" \notin DOMAIN P
        THEN ListInsert(s1, 2, NumTok("Y", y * Pow10(PRECISION), PRECISION))
        ELSE s1

\* a variant of InjectAxes that adds the missing axes at the end of the line
InjectAxesAppend(os, P, x, y, z) ==
    LET s1 == IF "X" \notin DOMAIN P
              THEN Append(os, NumTok("X", x * Pow10(PRECISION), PRECISION))
              ELSE os
        s2 == IF "Y" \notin DOMAIN P
              THEN Append(s1, NumTok("Y", y * Pow10(PRECISION), PRECISION))
              ELSE s1
    IN  IF "Z" \notin DOMAIN P
        THEN Append(s2, NumTok("Z", z * Pow10(PRECISION), PRECISION))
        ELSE s2

\* lines 405-410: the axes the command lacks, from the cached position
InjectAxes(os, P, x, y, z) ==
    LET s1 == IF "X" \notin DOMAIN P
              THEN ListInsert(os, 1, NumTok("X", x * Pow10(PRECISION), PRECISION))
              ELSE os
        s2 == IF "Y" \notin DOMAIN P
              THEN ListInsert(s1, 2, NumTok("Y", y * Pow10(PRECISION), PRECISION))
              ELSE s1
    IN  IF "Z" \notin DOMAIN P
        THEN ListInsert(s2, 3, NumTok("Z", z * Pow10(PRECISION), PRECISION))
        ELSE s2

\* lines 321-417 for command c: the values parse() holds before the cycle,
\* message and suppression steps
CommandState(c) ==
    LET command == Translate(c.Name)
        P == c.Parameters
        isTC == command \in TOOL_CHANGE_COMMANDS
        motion == command \in MOTION_COMMANDS
        som6 == isTC \/ START_OR_M6
        os2 == FirstTokens(command, lastcommand) \o ParamTokens(1, P, command)
        os3 == IF motion THEN DropEmptyMotion(os2, P) ELSE os2
        x == IF motion THEN StorePosition(P, "X", CURRENT_X) ELSE CURRENT_X
        y == IF motion THEN StorePosition(P, "Y", CURRENT_Y) ELSE CURRENT_Y
        z == IF motion THEN StorePosition(P, "Z", CURRENT_Z) ELSE CURRENT_Z
        inject == motion /\ som6
    IN  [ command |-> command,
          tcLines |-> IF isTC /\ OUTPUT_COMMENTS
                      THEN <<Comment("(begin toolchange)")>> \o
                           (IF OUTPUT_TOOL_CHANGE THEN TOOL_CHANGE ELSE << >>)
                      ELSE IF isTC /\ OUTPUT_TOOL_CHANGE THEN TOOL_CHANGE ELSE << >>,
          outstring |-> IF inject THEN InjectAxes(os3, P, x, y, z) ELSE os3,
          x |-> x, y |-> y, z |-> z,
          qty |-> IF motion THEN StoreQuantity(P, CURRENT_IS_QUANTITY)
                  ELSE CURRENT_IS_QUANTITY,
          typeError |-> ArcCentreTypeError(P),
          som6 |-> IF motion THEN FALSE ELSE som6,
          retract |-> IF command \in {"G98", "G99"} THEN command
                      ELSE DRILL_RETRACT_MODE,
          mode |-> IF command \in {"G90", "G91"} THEN command ELSE MOTION_MODE,
          \* format() raises ValueError when PRECISION is no number of digits
          formatError |-> PRECISION < 0 /\
                          (ParamsFormat(P, command) \/
                           (inject /\ {"X", "Y", "Z"} \ DOMAIN P # {})) ]

----------------------------------------------------------------------------
\* drill_translate(): the expansion of G81, G82 and G83.

\* a variant of DrillRequired that asks every cycle for Q and P
DrillRequiredQP(cmd) == {"X", "Y", "Z", "R", "F", "Q", "P"}
\* the parameters the function reads with params[...]: a missing one is a KeyError
DrillRequired(cmd) ==
    {"X", "Y", "Z", "R", "F"} \cup
    (IF cmd = "G83" THEN {"Q"} ELSE IF cmd = "G82" THEN {"P"} ELSE {})

\* lines 455-461: the original command as a comment
DrillComment(outstring, cmd) ==
    IF OUTPUT_COMMENTS
    THEN << Line(<<TextTok("(Translated drilling cycle to G0/G1 moves)"),
                   TextTok(cmd)>>, "comment"),
            Line(<<OpenTok>> \o outstring \o <<CloseTok>>, "comment") >>
    ELSE << >>

\* a variant of DrillTarget that takes the parameters as absolute in every mode
DrillTargetAbsolute(P, mode, cx, cy, cz) ==
    [X |-> P["X"], Y |-> P["Y"], Z |-> P["Z"], R |-> P["R"]]
\* lines 468-477: absolute drill position and R plane
DrillTarget(P, mode, cx, cy, cz) ==
    IF mode = "G90"
    THEN [X |-> P["X"], Y |-> P["Y"], Z |-> P["Z"], R |-> P["R"]]
    ELSE [X |-> cx + P["X"], Y |-> cy + P["Y"], Z |-> cz + P["Z"],
          R |-> cz + P["R"]]

\* lines 479-480: G98 retracts to the old Z when it is not below R
RetractPlane(R, cz, retract) ==
    IF retract = "G98" /\ cz >= R THEN cz ELSE R

RapidZ(z) ==
    Line(<<CodeTok("G0"), NumTok("Z", LengthAs(z, UNIT_FORMAT, PRECISION), PRECISION)>>,
         "cycle")
RapidXY(x, y) ==
    Line(<<CodeTok("G0"), NumTok("X", LengthAs(x, UNIT_FORMAT, PRECISION), PRECISION),
           NumTok("Y", LengthAs(y, UNIT_FORMAT, PRECISION), PRECISION)>>, "cycle")
\* the feed rate of a cycle is always printed with two decimals
FeedZ(z, F) ==
    Line(<<CodeTok("G1"), NumTok("Z", LengthAs(z, UNIT_FORMAT, PRECISION), PRECISION),
           NumTok("F", SpeedAs(F, UNIT_SPEED_FORMAT, 2), 2)>>, "cycle")
Dwell(P) == Line(<<CodeTok("G4"), RawTok("P", P)>>, "cycle")

\* lines 489-490: absolute moves are forced during the cycle
ForceAbsolute(mode) ==
    IF mode = "G91" THEN <<Line(<<CodeTok("G90")>>, "cycle")>> ELSE << >>

\* a variant of Preliminary that moves in X/Y before it raises the tool
PreliminaryXYFirst(t, rz, cz) ==
    <<RapidXY(t.X, t.Y)>> \o
    (IF cz < rz THEN <<RapidZ(rz)>> ELSE << >>) \o
    (IF cz > rz THEN <<RapidZ(cz)>> ELSE << >>)

\* lines 493-497: the moves before the drilling
Preliminary(t, rz, cz) ==
    (IF cz < rz THEN <<RapidZ(rz)>> ELSE << >>) \o
    <<RapidXY(t.X, t.Y)>> \o
    (IF cz > rz THEN <<RapidZ(cz)>> ELSE << >>)

\* lines 500-506: G81 and G82
SimpleCycle(cmd, dz, rz, F, P) ==
    <<FeedZ(dz, F)>> \o
    (IF cmd = "G82" THEN <<Dwell(P["P"])>> ELSE << >>) \o
    <<RapidZ(rz)>>

\* a variant of PeckFirstStop that starts at the retract height
PeckFirstStopAtRetract(rz, step) == rz
\* line 508: the first stop of G83
PeckFirstStop(rz, step) == rz - step
\* a variant of PeckContinue that also stops in the loop at the bottom
PeckContinueAtBottom(stop, dz) == stop >= dz
\* line 510: the loop goes on while the stop is above the bottom
PeckContinue(stop, dz) == stop > dz
\* lines 511-512 and 515-516: a feed move and the retract that follows
PeckPair(z, rz, F) == <<FeedZ(z, F), RapidZ(rz)>>
\* line 513
PeckNextStop(stop, step) == stop - step
\* the turns of the loop taken so far: the feed moves in trBuff
PeckTurns(buf) ==
    Len(SelectSeq(buf, LAMBDA l : l.org = "cycle" /\ l.toks[1] = CodeTok("G1")))

\* lines 519-520: the relative mode is restored; this line has no "\n"
RestoreRelative(mode) ==
    IF mode = "G91"
    THEN <<[Line(<<CodeTok("G91")>>, "cycle") EXCEPT !.nl = FALSE]>>
    ELSE << >>

\* lines 474-477: in relative mode the position is added to the parameters,
\* which is a TypeError while the position is the int 0 of the module
DrillTypeError(mode, qty) ==
    mode = "G91" /\ ~(qty["X"] /\ qty["Y"] /\ qty["Z"])
\* lines 479-480: RETRACT_Z becomes CURRENT_Z while that is the int 0
RetractIsInt(P, mode, retract, qty, cz) ==
    mode = "G90" /\ ~qty["Z"] /\ retract = "G98" /\ cz >= P["R"]
\* line 497 calls getValueAs() of CURRENT_Z while that is the int 0
CurrentIsInt(P, mode, retract, qty, cz) ==
    mode = "G90" /\ ~qty["Z"] /\ retract # "G98" /\ cz > P["R"]
\* whether drill_translate() ends with an exception
DrillRaises(cmd, P, mode, retract, qty, cz) ==
    \/ ~(DrillRequired(cmd) \subseteq DOMAIN P)
    \/ DrillTypeError(mode, qty)
    \/ RetractIsInt(P, mode, retract, qty, cz)
    \/ CurrentIsInt(P, mode, retract, qty, cz)
\* the lines linenumber() was called for before the exception: the comments;
\* the X/Y move when line 497 or line 508 raises; the feed move and the dwell
\* too when line 506 raises
DrillBeforeRaise(outstring, cmd, P, mode, retract, qty, cx, cy, cz) ==
    IF ~(DrillRequired(cmd) \subseteq DOMAIN P) \/ DrillTypeError(mode, qty)
    THEN DrillComment(outstring, cmd)
    ELSE IF RetractIsInt(P, mode, retract, qty, cz) /\ cmd # "G83"
    THEN DrillComment(outstring, cmd) \o <<RapidXY(P["X"], P["Y"]), FeedZ(P["Z"], P["F"])>>
         \o (IF cmd = "G82" THEN <<Dwell(P["P"])>> ELSE << >>)
    ELSE DrillComment(outstring, cmd) \o <<RapidXY(P["X"], P["Y"])>>

\* lines 443-508: drill_translate() up to the drilling moves
DrillStart(outstring, cmd, P, mode, retract, cx, cy, cz) ==
    LET t  == DrillTarget(P, mode, cx, cy, cz)
        rz == RetractPlane(t.R, cz, retract)
    IN  [ t |-> t, rz |-> rz,
          lines |-> DrillComment(outstring, cmd) \o ForceAbsolute(mode) \o
                    Preliminary(t, rz, cz) ]

\* lines 443-522 for G81 and G82
DrillSimple(outstring, cmd, P, mode, retract, cx, cy, cz) ==
    LET s == DrillStart(outstring, cmd, P, mode, retract, cx, cy, cz)
    IN  s.lines \o SimpleCycle(cmd, s.t.Z, s.rz, P["F"], P) \o RestoreRelative(mode)

----------------------------------------------------------------------------
\* State, history and replay.

NotWritten == [written |-> FALSE, text |-> << >>]
NoQuantity == [a \in {"X", "Y", "Z"} |-> FALSE]
NoArgs == [bad |-> FALSE, no_header |-> FALSE, header |-> FALSE,
           no_comments |-> FALSE, comments |-> FALSE,
           no_line_numbers |-> FALSE, line_numbers |-> FALSE,
           precision |-> DEFAULT_PRECISION, preamble |-> {}, postamble |-> {}]

\* what a step saw when it began
Pre == [som6 |-> START_OR_M6, x |-> CURRENT_X, y |-> CURRENT_Y, z |-> CURRENT_Z,
        qty |-> CURRENT_IS_QUANTITY,
        mode |-> MOTION_MODE, retract |-> DRILL_RETRACT_MODE,
        lastc |-> lastcommand, nr |-> LINENR,
        tc |-> tcPending, tcPos |-> tcPos, prev |-> prev]
NoDrill == [c |-> NoCmd, Z |-> 0, rz |-> 0, F |-> 0, Q |-> 0, mode |-> "G90",
            pre |-> [som6 |-> FALSE, x |-> 0, y |-> 0, z |-> 0,
                     qty |-> NoQuantity, mode |-> "G90",
                     retract |-> "G98", lastc |-> None, nr |-> 0,
                     tc |-> FALSE, tcPos |-> <<0, 0, 0>>,
                     prev |-> [code |-> None, same |-> FALSE]]]
Step(act, c, lines, pre) == [act |-> act, c |-> c, lines |-> lines, pre |-> pre]

\* an input of export(): the option string, an object of the tree, a command
Event(t, c, a) == [t |-> t, c |-> c, a |-> a]

\* the first export takes any input (and records it when a second export is
\* to follow); the second export is given the inputs of the first
Replay(e) ==
    /\ IF ~twice THEN UNCHANGED <<script, idx>>
       ELSE IF run = 1 THEN script' = Append(script, e) /\ idx' = idx
       ELSE /\ idx <= Len(script)
            /\ e = script[idx]
            /\ idx' = idx + 1
            /\ script' = script
    /\ UNCHANGED <<twice, run, file1>>

\* the state of the module after import
InitWith(tw) ==
    /\ OUTPUT_HEADER = TRUE /\ OUTPUT_COMMENTS = TRUE
    /\ OUTPUT_LINE_NUMBERS = TRUE /\ PRECISION = DEFAULT_PRECISION
    /\ PREAMBLE = << >> /\ POSTAMBLE = DefaultPostamble
    /\ LINENR = LINENR_START /\ START_OR_M6 = TRUE
    /\ DRILL_RETRACT_MODE = "G98" /\ MOTION_MODE = "G90"
    /\ UNITS = "G71" /\ UNIT_FORMAT = "mm" /\ UNIT_SPEED_FORMAT = "mm/min"
    /\ CURRENT_X = 0 /\ CURRENT_Y = 0 /\ CURRENT_Z = 0
    /\ CURRENT_IS_QUANTITY = NoQuantity
    /\ pc = "idle" /\ gcode = << >> /\ file = NotWritten
    /\ out = << >> /\ outIsList = FALSE /\ lastcommand = None /\ depth = 0
    /\ trBuff = << >> /\ next_Stop_Z = 0 /\ drill = NoDrill
    /\ nnodes = 0 /\ ncmds = 0
    /\ last = Step("init", NoCmd, << >>, NoDrill.pre)
    /\ tcPending = FALSE /\ tcPos = <<0, 0, 0>>
    /\ prev = [code |-> None, same |-> FALSE]
    /\ twice = tw /\ run = 1 /\ script = << >> /\ idx = 1 /\ file1 = NotWritten

----------------------------------------------------------------------------
\* export(): arguments, header and preamble.

PreambleHas(text, code) == \E i \in 1..Len(text) : text[i].s = code

TextLines(text, org) ==
    [i \in 1..Len(text) |->
        [Line(<<CodeTok(text[i].s)>>, org) EXCEPT !.nl = text[i].nl]]

\* lines 183-185
Header(on) ==
    IF on THEN << Line(<<TextTok("(Exported by FreeCAD)")>>, "header"),
                  Line(<<TextTok("(Post Processor: charly_post)")>>, "header"),
                  Line(<<TextTok("(Output Time: now)")>>, "header") >>
    ELSE << >>

\* line 192: the units line written right after the preamble
UnitsAfterPreamble(units) == <<Line(<<CodeTok(units)>>, "units")>>

\* lines 195-200: the motion mode the preamble sets, else an explicit line
ModeFromPreamble(text, mode) ==
    IF PreambleHas(text, "G90") THEN "G90"
    ELSE IF PreambleHas(text, "G91") THEN "G91" ELSE mode
ModeLine(text, mode) ==
    IF PreambleHas(text, "G90") \/ PreambleHas(text, "G91") THEN << >>
    ELSE <<Line(<<CodeTok(mode)>>, "mode")>>

\* lines 201-218: the units the preamble sets, else an explicit line
UnitsFromPreamble(text, units) ==
    IF PreambleHas(text, "G71") \/ PreambleHas(text, "G21") THEN "G71"
    ELSE IF PreambleHas(text, "G70") \/ PreambleHas(text, "G20") THEN "G70"
    ELSE units
UnitFormatFromPreamble(text, fmt) ==
    IF PreambleHas(text, "G71") \/ PreambleHas(text, "G21") THEN "mm"
    ELSE IF PreambleHas(text, "G70") \/ PreambleHas(text, "G20") THEN "in"
    ELSE fmt
UnitSpeedFromPreamble(text, fmt) ==
    IF PreambleHas(text, "G71") \/ PreambleHas(text, "G21") THEN "mm/min"
    ELSE IF PreambleHas(text, "G70") \/ PreambleHas(text, "G20") THEN "in/min"
    ELSE fmt
UnitsLine(text, units) ==
    IF \E u \in {"G71", "G21", "G70", "G20"} : PreambleHas(text, u) THEN << >>
    ELSE <<Line(<<CodeTok(units)>>, "units")>>

\* processArguments() and lines 178-218 of export(), for the option string a
Export(a) ==
    /\ nnodes' = 0 /\ ncmds' = 0 /\ depth' = 0
    /\ tcPending' = FALSE /\ tcPos' = <<CURRENT_X, CURRENT_Y, CURRENT_Z>>
    /\ prev' = [code |-> None, same |-> FALSE]
    /\ out' = << >> /\ outIsList' = FALSE /\ lastcommand' = None
    /\ UNCHANGED <<drillVars, globalsPos, START_OR_M6, DRILL_RETRACT_MODE>>
    /\ file' = NotWritten
    /\ IF a.bad
       THEN \* parse_args() rejects the string (parser.error() leaves through
            \* SystemExit, shlex's ValueError makes export() return None):
            \* nothing is assigned, nothing emitted
            /\ pc' = "aborted"
            /\ gcode' = << >>
            /\ last' = Step("export", NoCmd, << >>, Pre)
            /\ UNCHANGED <<globalsArgs, globalsUnits, LINENR, MOTION_MODE>>
       ELSE LET hdr == IF a.header THEN TRUE
                       ELSE IF a.no_header THEN FALSE ELSE OUTPUT_HEADER
                cmt == IF a.comments THEN TRUE
                       ELSE IF a.no_comments THEN FALSE ELSE OUTPUT_COMMENTS
                num == IF a.line_numbers THEN TRUE
                       ELSE IF a.no_line_numbers THEN FALSE ELSE OUTPUT_LINE_NUMBERS
                pre == IF a.preamble = {} THEN PREAMBLE
                       ELSE CHOOSE t \in a.preamble : TRUE
                post == IF a.postamble = {} THEN POSTAMBLE
                        ELSE CHOOSE t \in a.postamble : TRUE
                mode == ModeFromPreamble(pre, MOTION_MODE)
                ls == Header(hdr) \o
                      (IF cmt THEN <<Comment("(begin preamble)")>> ELSE << >>) \o
                      TextLines(pre, "preamble") \o
                      UnitsAfterPreamble(UNITS) \o
                      ModeLine(pre, MOTION_MODE) \o
                      UnitsLine(pre, UNITS)
            IN  /\ OUTPUT_HEADER' = hdr /\ OUTPUT_COMMENTS' = cmt
                /\ OUTPUT_LINE_NUMBERS' = num /\ PRECISION' = a.precision
                /\ PREAMBLE' = pre /\ POSTAMBLE' = post
                /\ MOTION_MODE' = mode
                /\ UNITS' = UnitsFromPreamble(pre, UNITS)
                /\ UNIT_FORMAT' = UnitFormatFromPreamble(pre, UNIT_FORMAT)
                /\ UNIT_SPEED_FORMAT' = UnitSpeedFromPreamble(pre, UNIT_SPEED_FORMAT)
                /\ gcode' = linenumber(ls, LINENR, num)
                /\ LINENR' = LineNrAfter(ls, LINENR, num)
                /\ pc' = "walk"
                /\ last' = Step("export", NoCmd, gcode', Pre)

\* export() is called: the first call of the process, or the second call with
\* the option string of the first
StartExport(a) ==
    /\ \/ pc = "idle"
       \/ twice /\ run = 1 /\ pc \in {"done", "failed", "aborted"}
    /\ IF ~twice THEN UNCHANGED <<script, idx, run, file1>>
       ELSE IF pc = "idle"
       THEN script' = <<Event("export", NoCmd, a)>> /\ UNCHANGED <<idx, run, file1>>
       ELSE /\ a = script[1].a
            /\ run' = 2 /\ idx' = 2 /\ file1' = file /\ script' = script
    /\ twice' = twice
    /\ Export(a)

\* export() is called a second time in the process, with any option string
\* and any tree
ExportAgain(a) ==
    /\ ~twice /\ run = 1 /\ pc \in {"done", "failed", "aborted"}
    /\ run' = 2 /\ file1' = file
    /\ UNCHANGED <<twice, script, idx>>
    /\ Export(a)

----------------------------------------------------------------------------
\* export() and parse(): the walk over the tree of objects.

\* lines 227-230: the start of a top-level object
BeginOperation ==
    IF depth = 0
    THEN (IF OUTPUT_COMMENTS THEN <<Comment("(begin operation)")>> ELSE << >>)
         \o PRE_OPERATION
    ELSE << >>
\* lines 236-239: the end of a top-level object (d: the depth it returns to)
FinishOperation(d) ==
    IF d = 0
    THEN (IF OUTPUT_COMMENTS THEN <<Comment("(finish operation)")>> ELSE << >>)
         \o POST_OPERATION
    ELSE << >>

Emit(ls) ==
    /\ gcode' = gcode \o linenumber(ls, LINENR, OUTPUT_LINE_NUMBERS)
    /\ LINENR' = LineNrAfter(ls, LINENR, OUTPUT_LINE_NUMBERS)

walkFrame == <<globalsArgs, globalsUnits, globalsPos, START_OR_M6,
               DRILL_RETRACT_MODE, MOTION_MODE, file, drillVars, ncmds,
               tcPending, tcPos>>
walkHist == <<walkFrame, prev>>

\* lines 304-306: parse() enters a compound
EnterCompound ==
    /\ pc = "walk" /\ depth < MaxDepth /\ nnodes < MaxNodes
    /\ Replay(Event("compound", NoCmd, NoArgs))
    /\ LET ls == BeginOperation \o
                 (IF OUTPUT_COMMENTS THEN <<Comment("(compound)")>> ELSE << >>)
       IN  Emit(ls) /\ last' = Step("compound", NoCmd, ls, Pre)
    /\ depth' = depth + 1 /\ nnodes' = nnodes + 1
    /\ UNCHANGED <<walkHist, pc, out, outIsList, lastcommand>>

\* lines 307-309: the compound's children are done
LeaveCompound ==
    /\ pc = "walk" /\ depth > 0
    /\ Replay(Event("endcompound", NoCmd, NoArgs))
    /\ LET ls == FinishOperation(depth - 1)
       IN  Emit(ls) /\ last' = Step("endcompound", NoCmd, ls, Pre)
    /\ depth' = depth - 1
    /\ UNCHANGED <<walkHist, pc, out, outIsList, lastcommand, nnodes>>

\* lines 222-224 and 313-314: an object that has no Path
NonPath ==
    /\ pc = "walk" /\ nnodes < MaxNodes
    /\ Replay(Event("nonpath", NoCmd, NoArgs))
    /\ pc' = IF depth = 0 THEN "aborted" ELSE pc
    /\ nnodes' = nnodes + 1
    /\ last' = Step("nonpath", NoCmd, << >>, Pre)
    /\ UNCHANGED <<walkHist, gcode, LINENR, out, outIsList, lastcommand, depth>>

\* lines 295-317: parse() enters a leaf
EnterLeaf ==
    /\ pc = "walk" /\ nnodes < MaxNodes
    /\ Replay(Event("leaf", NoCmd, NoArgs))
    /\ LET ops == BeginOperation
           own == IF OUTPUT_COMMENTS THEN <<Comment("(Path)")>> ELSE << >>
           all == linenumber(ops \o own, LINENR, OUTPUT_LINE_NUMBERS)
       IN  /\ gcode' = gcode \o SubSeq(all, 1, Len(ops))
           /\ out' = SubSeq(all, Len(ops) + 1, Len(all))
           /\ LINENR' = LineNrAfter(all, LINENR, OUTPUT_LINE_NUMBERS)
           /\ last' = Step("leaf", NoCmd, all, Pre)
    /\ pc' = "leaf" /\ outIsList' = FALSE /\ lastcommand' = None
    /\ nnodes' = nnodes + 1
    /\ prev' = [prev EXCEPT !.same = FALSE]
    /\ UNCHANGED <<walkFrame, depth>>

\* line 440, then lines 233 and 308: the leaf's text is added to the caller's;
\* a list cannot be added to a str (TypeError)
LeaveLeaf ==
    /\ pc = "leaf"
    /\ Replay(Event("endleaf", NoCmd, NoArgs))
    /\ IF outIsList
       THEN /\ pc' = "failed"
            /\ last' = Step("endleaf", NoCmd, << >>, Pre)
            /\ UNCHANGED <<gcode, LINENR, out, outIsList>>
       ELSE LET ls == linenumber(FinishOperation(depth), LINENR, OUTPUT_LINE_NUMBERS)
            IN  /\ gcode' = gcode \o out \o ls
                /\ LINENR' = LineNrAfter(ls, LINENR, OUTPUT_LINE_NUMBERS)
                /\ last' = Step("endleaf", NoCmd, ls, Pre)
                /\ pc' = "walk" /\ out' = << >> /\ outIsList' = FALSE
    /\ UNCHANGED <<walkHist, lastcommand, depth, nnodes>>

\* lines 241-264: postamble, editor (not shown without GUI), file
Finish ==
    /\ pc = "walk" /\ depth = 0
    /\ Replay(Event("finish", NoCmd, NoArgs))
    /\ LET ls == (IF OUTPUT_COMMENTS THEN <<Comment("(begin postamble)")>> ELSE << >>)
                 \o TextLines(POSTAMBLE, "postamble")
       IN  Emit(ls) /\ last' = Step("finish", NoCmd, ls, Pre)
    /\ file' = [written |-> TRUE, text |-> gcode']
    /\ pc' = "done"
    /\ UNCHANGED <<globalsArgs, globalsUnits, globalsPos, START_OR_M6,
                   DRILL_RETRACT_MODE, MOTION_MODE, drillVars, ncmds, nnodes,
                   tcPending, tcPos, prev, out, outIsList, lastcommand, depth>>

----------------------------------------------------------------------------
\* parse(): the body of the loop over the commands of a leaf.

\* lines 426-430: a message keeps its text only when comments are written
MessageTokens(os, command) ==
    IF command = "message" /\ OUTPUT_COMMENTS THEN Tail(os) ELSE os
\* lines 427-428: without comments the message rebinds out to an empty list
MessageClearsOut(command) == command = "message" /\ ~OUTPUT_COMMENTS

\* a variant of SuppressTokens that leaves the command as it is
SuppressTokensLive(os, command) == os
\* lines 432-434: suppressed commands are written as comments
SuppressTokens(os, command) ==
    IF command \in SUPPRESS_COMMANDS THEN <<OpenTok>> \o os \o <<CloseTok>> ELSE os

\* lines 437-438: the command's own line
OwnLine(os) == IF Len(os) >= 1 THEN <<Line(os, "command")>> ELSE << >>

ParseCommand(c) ==
    /\ pc = "leaf" /\ ncmds < MaxCmds
    /\ Replay(Event("cmd", c, NoArgs))
    /\ ncmds' = ncmds + 1
    /\ LET st == CommandState(c)
           command == st.command
           P == c.Parameters
           on == OUTPUT_LINE_NUMBERS
           isCycle == command \in DRILL_CYCLES
           motion == command \in MOTION_COMMANDS
           isTC == command \in TOOL_CHANGE_COMMANDS
       IN
       /\ tcPending' = IF isTC THEN TRUE ELSE IF motion THEN FALSE ELSE tcPending
       /\ tcPos' = IF isTC THEN <<CURRENT_X, CURRENT_Y, CURRENT_Z>> ELSE tcPos
       /\ prev' = [code |-> command, same |-> TRUE]
       /\ UNCHANGED <<globalsArgs, globalsUnits, gcode, file, depth, nnodes>>
       /\ IF st.formatError \/ st.typeError
          THEN \* ValueError in format() or TypeError in the parameter loop:
               \* export() ends with the exception
               /\ pc' = "failed"
               /\ LINENR' = LineNrAfter(st.tcLines, LINENR, on)
               /\ START_OR_M6' = (isTC \/ START_OR_M6)
               /\ last' = Step("cmd", c, << >>, Pre)
               /\ UNCHANGED <<globalsPos, DRILL_RETRACT_MODE, MOTION_MODE,
                              out, outIsList, lastcommand, drillVars>>
          ELSE
          /\ START_OR_M6' = st.som6
          /\ CURRENT_X' = st.x /\ CURRENT_Y' = st.y /\ CURRENT_Z' = st.z
          /\ CURRENT_IS_QUANTITY' = st.qty
          /\ DRILL_RETRACT_MODE' = st.retract /\ MOTION_MODE' = st.mode
          /\ lastcommand' = command
          /\ IF isCycle /\ DrillRaises(command, P, st.mode, st.retract, st.qty, st.z)
             THEN \* KeyError, TypeError or AttributeError in drill_translate():
                  \* export() ends with the exception
                  LET ls == st.tcLines \o
                            DrillBeforeRaise(st.outstring, command, P, st.mode,
                                             st.retract, st.qty, st.x, st.y, st.z)
                  IN  /\ pc' = "failed"
                      /\ LINENR' = LineNrAfter(ls, LINENR, on)
                      /\ last' = Step("cmd", c, << >>, Pre)
                      /\ UNCHANGED <<out, outIsList, drillVars>>
             ELSE IF command = "G83"
             THEN \* the loop of lines 509-517 is taken step by step
                  LET s == DrillStart(st.outstring, command, P, st.mode, st.retract,
                                      st.x, st.y, st.z)
                      ls == linenumber(st.tcLines \o s.lines, LINENR, on)
                  IN  /\ pc' = "peck"
                      /\ trBuff' = ls
                      /\ LINENR' = LineNrAfter(ls, LINENR, on)
                      /\ next_Stop_Z' = PeckFirstStop(s.rz, P["Q"])
                      /\ drill' = [c |-> c, Z |-> s.t.Z, rz |-> s.rz, F |-> P["F"],
                                   Q |-> P["Q"], mode |-> st.mode, pre |-> Pre]
                      /\ last' = Step("cycle", c, ls, Pre)
                      /\ UNCHANGED <<out, outIsList>>
             ELSE LET cyc == IF isCycle
                             THEN DrillSimple(st.outstring, command, P, st.mode,
                                              st.retract, st.x, st.y, st.z)
                             ELSE << >>
                      os5 == IF isCycle THEN << >> ELSE st.outstring
                      os7 == SuppressTokens(MessageTokens(os5, command), command)
                      ls == linenumber(st.tcLines \o cyc \o OwnLine(os7), LINENR, on)
                  IN  /\ out' = IF MessageClearsOut(command) THEN ls ELSE out \o ls
                      /\ outIsList' = (outIsList \/ MessageClearsOut(command))
                      /\ LINENR' = LineNrAfter(ls, LINENR, on)
                      /\ last' = Step("cmd", c, ls, Pre)
                      /\ pc' = "leaf"
                      /\ UNCHANGED drillVars

\* lines 509-517 of drill_translate(): one turn of the G83 loop; the last turn
\* goes on to lines 519-522 and to lines 422-438 of parse()
PeckStep ==
    /\ pc = "peck"
    /\ UNCHANGED <<globalsArgs, globalsUnits, globalsPos, START_OR_M6,
                   DRILL_RETRACT_MODE, MOTION_MODE, gcode, file, depth, nnodes,
                   ncmds, lastcommand, outIsList, tcPending, tcPos, prev,
                   replayVars>>
    /\ IF PeckContinue(next_Stop_Z, drill.Z)
       THEN LET ls == linenumber(PeckPair(next_Stop_Z, drill.rz, drill.F),
                                 LINENR, OUTPUT_LINE_NUMBERS)
            IN  /\ PeckTurns(trBuff) < MaxPecks
                /\ trBuff' = trBuff \o ls
                /\ LINENR' = LineNrAfter(ls, LINENR, OUTPUT_LINE_NUMBERS)
                /\ next_Stop_Z' = PeckNextStop(next_Stop_Z, drill.Q)
                /\ last' = Step("peck", drill.c, ls, drill.pre)
                /\ UNCHANGED <<pc, out, drill>>
       ELSE LET ls == linenumber(PeckPair(drill.Z, drill.rz, drill.F) \o
                                 RestoreRelative(drill.mode),
                                 LINENR, OUTPUT_LINE_NUMBERS)
            IN  /\ out' = out \o trBuff \o ls
                /\ LINENR' = LineNrAfter(ls, LINENR, OUTPUT_LINE_NUMBERS)
                /\ last' = Step("cmd", drill.c, trBuff \o ls, drill.pre)
                /\ pc' = "leaf"
                /\ trBuff' = << >> /\ next_Stop_Z' = 0 /\ drill' = NoDrill

Walk == EnterCompound \/ LeaveCompound \/ NonPath \/ EnterLeaf \/ LeaveLeaf \/ Finish

----------------------------------------------------------------------------
\* Inputs and specifications.

Text1(code) == << [s |-> code, nl |-> FALSE] >>
Cmd(name, P) == [Name |-> name, Parameters |-> P]

\* option strings: "", "--no-comments", "--no-line-numbers --no-header",
\* "--preamble G70", "--no-comments --preamble G91"
ArgsDefault == NoArgs
ArgsNoComments == [NoArgs EXCEPT !.no_comments = TRUE]
ArgsPlain == [NoArgs EXCEPT !.no_line_numbers = TRUE, !.no_header = TRUE]
ArgsInch == [NoArgs EXCEPT !.preamble = {Text1("G70")}]
ArgsRelative == [NoArgs EXCEPT !.no_comments = TRUE, !.preamble = {Text1("G91")}]

ArgsMain == {ArgsDefault, ArgsNoComments, ArgsPlain, ArgsInch, ArgsRelative}
CmdsMain ==
    { Cmd("G1", "X" :> 10),
      Cmd("G1", "Z" :> -2 @@ "F" :> 5),
      Cmd("G0", "X" :> 20 @@ "Y" :> 30),
      Cmd("message", NoParams),
      Cmd("G17", NoParams) }

\* the export of any tree of compounds and leaves of the commands of CmdsMain
Init == InitWith(FALSE)
Next ==
    \/ \E a \in ArgsMain : StartExport(a)
    \/ Walk
    \/ \E c \in CmdsMain : ParseCommand(c)
Spec == Init /\ [][Next]_vars

DrillP == "X" :> 5 @@ "Y" :> 5 @@ "Z" :> -10 @@ "R" :> 2 @@ "F" :> 5
ArgsMotion == {ArgsDefault, ArgsInch}
CmdsMotion ==
    { Cmd("G0", NoParams),
      Cmd("G1", "X" :> 10),
      Cmd("G1", "Z" :> -2 @@ "F" :> 5),
      Cmd("M6", "T" :> 1),
      Cmd("G91", NoParams),
      Cmd("G81", DrillP) }

\* motion commands, tool changes, motion modes and a drilling cycle
NextMotion ==
    \/ \E a \in ArgsMotion : StartExport(a)
    \/ Walk
    \/ \E c \in CmdsMotion : ParseCommand(c)
SpecMotion == Init /\ [][NextMotion]_vars

PeckP(z, q) == "X" :> 5 @@ "Y" :> 5 @@ "Z" :> z @@ "R" :> 5 @@ "Q" :> q @@ "F" :> 5
\* option strings: "", "--no-comments --preamble G70"
ArgsInchNoComments == [NoArgs EXCEPT !.no_comments = TRUE, !.preamble = {Text1("G70")}]
ArgsDrill == {ArgsDefault, ArgsInchNoComments}
CmdsDrill ==
    { Cmd("G81", DrillP),
      Cmd("G82", DrillP @@ "P" :> 3),
      Cmd("G83", PeckP(-12, 4)),
      Cmd("G83", PeckP(-7, 4)),
      Cmd("G0", "Z" :> 10),
      Cmd("G99", NoParams) }

\* drilling cycles in leaves at the top level
NextDrill ==
    \/ \E a \in ArgsDrill : StartExport(a)
    \/ EnterLeaf \/ LeaveLeaf \/ Finish
    \/ \E c \in CmdsDrill : ParseCommand(c)
    \/ PeckStep
SpecDrill == Init /\ [][NextDrill]_vars

ArgsTwice == {ArgsDefault, ArgsPlain}
CmdsTwice ==
    { Cmd("G1", "X" :> 10),
      Cmd("G1", "Z" :> -2 @@ "F" :> 5),
      Cmd("G91", NoParams),
      Cmd("M6", "T" :> 1) }

\* two exports of the same tree with the same option string, one after the other
InitTwice == InitWith(TRUE)
NextTwice ==
    \/ \E a \in ArgsTwice : StartExport(a)
    \/ EnterLeaf \/ LeaveLeaf \/ Finish
    \/ \E c \in CmdsTwice : ParseCommand(c)
SpecTwice == InitTwice /\ [][NextTwice]_vars

\* cycles that lack a parameter, a G83 whose step is 0 and one whose drill Z
\* is above its R plane
CmdsCycles ==
    { Cmd("G81", DrillP),
      Cmd("G81", "X" :> 5 @@ "Y" :> 5 @@ "Z" :> -10 @@ "R" :> 2),
      Cmd("G82", DrillP),
      Cmd("G83", DrillP),
      Cmd("G83", PeckP(-7, 0)),
      Cmd("G83", PeckP(8, 4)) }
ArgsCycles == {ArgsDefault, ArgsNoComments}
NextCycles ==
    \/ \E a \in ArgsCycles : StartExport(a)
    \/ EnterLeaf \/ LeaveLeaf \/ Finish
    \/ \E c \in CmdsCycles : ParseCommand(c)
    \/ PeckStep
SpecCycles == Init /\ [][NextCycles]_vars

\* a move that stores all three axes, and cycles whose parameters are read as
\* offsets once G91 is the motion mode
RelP(r) == "X" :> 5 @@ "Y" :> 5 @@ "Z" :> -10 @@ "R" :> r @@ "F" :> 5
CmdsRelative ==
    { Cmd("G1", "X" :> 1 @@ "Y" :> 1 @@ "Z" :> -2 @@ "F" :> 5),
      Cmd("G81", RelP(2)),
      Cmd("G82", RelP(0) @@ "P" :> 3),
      Cmd("G83", "X" :> 5 @@ "Y" :> 5 @@ "Z" :> -6 @@ "R" :> 2 @@ "Q" :> 4 @@ "F" :> 5),
      Cmd("G91", NoParams) }
ArgsRelativeMode == {ArgsDefault, ArgsRelative}
\* cycles in absolute and in relative mode
NextRelative ==
    \/ \E a \in ArgsRelativeMode : StartExport(a)
    \/ EnterLeaf \/ LeaveLeaf \/ Finish
    \/ \E c \in CmdsRelative : ParseCommand(c)
    \/ PeckStep
SpecRelative == Init /\ [][NextRelative]_vars

\* option strings: "--line-numbers", "--frobnicate", "--precision x"
ArgsNumbered == [NoArgs EXCEPT !.line_numbers = TRUE]
ArgsUnknown == [NoArgs EXCEPT !.bad = TRUE]
ArgsBadPrecision == [NoArgs EXCEPT !.precision = NotDigits]
ArgsOptions == {ArgsDefault, ArgsPlain, ArgsNumbered, ArgsUnknown, ArgsBadPrecision}
CmdsOptions == { Cmd("G1", "X" :> 10) }

\* two exports in one process, each with any of the option strings
NextOptions ==
    \/ \E a \in ArgsOptions : StartExport(a)
    \/ \E a \in ArgsOptions : ExportAgain(a)
    \/ EnterLeaf \/ LeaveLeaf \/ Finish
    \/ \E c \in CmdsOptions : ParseCommand(c)
SpecOptions == Init /\ [][NextOptions]_vars

\* a move with every combination of the axes (a rapid one for Z alone), an
\* arc with an angle and a spindle speed, and a tool change
OrderP == "X" :> 10 @@ "Y" :> 20 @@ "Z" :> -2 @@ "F" :> 5
CmdsOrder ==
    { Cmd(IF A = {"Z"} THEN "G0" ELSE "G1", [q \in A \cup {"F"} |-> OrderP[q]]) :
        A \in SUBSET {"X", "Y", "Z"} }
    \cup
    { Cmd("G2", "S" :> 1000 @@ "F" :> 5 @@ "J" :> -10 @@ "A" :> 90 @@ "Y" :> 30),
      Cmd("M6", "T" :> 1) }
ArgsOrder == {ArgsDefault}
\* commands with their parameters in any combination
NextOrder ==
    \/ \E a \in ArgsOrder : StartExport(a)
    \/ EnterLeaf \/ LeaveLeaf \/ Finish
    \/ \E c \in CmdsOrder : ParseCommand(c)
SpecOrder == Init /\ [][NextOrder]_vars

\* a rapid move that stores X and Y, arcs with I and J, with I alone and with
\* J alone, and the relative motion mode
CmdsArcs ==
    { Cmd("G0", "X" :> 10 @@ "Y" :> 0),
      Cmd("G2", "X" :> 0 @@ "Y" :> 10 @@ "I" :> -10 @@ "J" :> 0 @@ "F" :> 5),
      Cmd("G3", "X" :> 20 @@ "Y" :> 30 @@ "I" :> 7 @@ "F" :> 5),
      Cmd("G3", "Y" :> 20 @@ "J" :> 5),
      Cmd("G91", NoParams) }
ArgsArcs == {ArgsDefault, ArgsInch}
\* arcs after moves and after other arcs
NextArcs ==
    \/ \E a \in ArgsArcs : StartExport(a)
    \/ EnterLeaf \/ LeaveLeaf \/ Finish
    \/ \E c \in CmdsArcs : ParseCommand(c)
SpecArcs == Init /\ [][NextArcs]_vars

----------------------------------------------------------------------------
\* Properties.  A step that completes a command leaves last.act = "cmd",
\* last.c the command, last.lines the lines it added to the leaf's text and
\* last.pre the values it found.

CmdDone == last.act = "cmd"
Code(c) == Translate(c.Name)
IsMotion(c) == Code(c) \in MOTION_COMMANDS
Dom(c) == DOMAIN c.Parameters
Axes == {"X", "Y", "Z"}
\* the letters of the numbers and values printed on a line
Letters(line) ==
    {line.toks[i].s : i \in {j \in 1..Len(line.toks) : line.toks[j].k \in {"num", "raw"}}}
HasCode(line) == \E i \in 1..Len(line.toks) : line.toks[i].k = "code"
\* the parameters of c that parse() prints: F is left out of rapid moves and
\* when it is not positive
PrintedParams(c) ==
    {q \in Dom(c) : q = "F" => (Code(c) \notin RAPID_MOVES /\ c.Parameters["F"] > 0)}
AxisOf(pos, a) == IF a = "X" THEN pos[1] ELSE IF a = "Y" THEN pos[2] ELSE pos[3]

\* C1: a motion command whose parameter map is empty appends no line, in every
\* state of the emitter, START_OR_M6 set or not.
C1_EmptyMotionNoLine ==
    (CmdDone /\ IsMotion(last.c) /\ Dom(last.c) = {}) => last.lines = << >>

\* C2: the motion command that follows a tool change, whatever non-motion
\* commands lie between, emits one line with X, Y and Z; an axis the command
\* lacks is printed with the value the cached position had before the tool
\* change; the flag is cleared, and a motion command that finds the flag
\* cleared prints no axis of its own making.
C2_FullMoveAfterToolChange ==
    /\ (CmdDone /\ IsMotion(last.c) /\ last.pre.tc) =>
          /\ Len(last.lines) = 1
          /\ \A a \in Axes :
                \E i \in 1..Len(last.lines[1].toks) :
                    LET t == last.lines[1].toks[i]
                    IN  /\ t.k = "num" /\ t.s = a
                        /\ a \notin Dom(last.c) =>
                              t = NumTok(a, AxisOf(last.pre.tcPos, a) * Pow10(PRECISION),
                                         PRECISION)
          /\ ~START_OR_M6
    /\ (CmdDone /\ IsMotion(last.c) /\ ~last.pre.som6) =>
          \A i \in 1..Len(last.lines) :
              Letters(last.lines[i]) \cap Axes \subseteq Dom(last.c)
\* a move after a tool change prints an axis it was not given, with the
\* non-zero value the position had before the tool change
C2_Witness ==
    /\ CmdDone /\ IsMotion(last.c) /\ last.pre.tc
    /\ "X" \notin Dom(last.c) /\ last.pre.tcPos[1] # 0
    /\ Len(last.lines) = 1

Moves(ls) == SelectSeq(ls, LAMBDA l : l.org # "comment")
\* the comments of ls all come before its other lines
CommentsFirst(ls) ==
    \A i, j \in 1..Len(ls) : (ls[i].org # "comment" /\ ls[j].org = "comment") => j < i
LenTok(letter, q) == NumTok(letter, LengthAs(q, UNIT_FORMAT, PRECISION), PRECISION)
IsRapidZ(line, z) == line.toks = <<CodeTok("G0"), LenTok("Z", z)>>
IsRapidXY(line, x, y) == line.toks = <<CodeTok("G0"), LenTok("X", x), LenTok("Y", y)>>
\* a feed move to z at feed rate F, whatever the number of decimals of F
IsFeedZ(line, z, F) ==
    /\ Len(line.toks) = 3
    /\ line.toks[1] = CodeTok("G1") /\ line.toks[2] = LenTok("Z", z)
    /\ line.toks[3].k = "num" /\ line.toks[3].s = "F"
    /\ line.toks[3].v = SpeedAs(F, UNIT_SPEED_FORMAT, line.toks[3].d)
IsDwell(line, P) == line.toks = <<CodeTok("G4"), RawTok("P", P)>>
IsFeed(line) == line.toks[1] = CodeTok("G1")
Feeds(ls) == SelectSeq(ls, IsFeed)
\* absolute drill Z and effective retract height of cycle c begun in state pre
CycleZ(c, pre) ==
    IF pre.mode = "G90" THEN c.Parameters["Z"] ELSE pre.z + c.Parameters["Z"]
CycleR(c, pre) ==
    LET r == IF pre.mode = "G90" THEN c.Parameters["R"] ELSE pre.z + c.Parameters["R"]
    IN  IF pre.retract = "G98" /\ pre.z >= r THEN pre.z ELSE r
CycleDone(codes) ==
    /\ CmdDone /\ Code(last.c) \in codes /\ pc # "failed"
    /\ DrillRequired(Code(last.c)) \subseteq Dom(last.c)

\* C4: absolute mode, G99, current Z below R: G81 expands to the comments
\* (if any) and then exactly G0 Z=R, G0 X Y, G1 Z=drill Z F, G0 Z=R; G82 has
\* one G4 P<raw P> between the feed move and the last retract.
C4_SimpleCycleMoves ==
    (/\ CycleDone({"G81", "G82"})
     /\ last.pre.mode = "G90" /\ last.pre.retract = "G99"
     /\ last.pre.z < last.c.Parameters["R"]) =>
        LET P == last.c.Parameters
            m == Moves(last.lines)
        IN  /\ CommentsFirst(last.lines)
            /\ Len(m) = IF Code(last.c) = "G82" THEN 5 ELSE 4
            /\ IsRapidZ(m[1], P["R"])
            /\ IsRapidXY(m[2], P["X"], P["Y"])
            /\ IsFeedZ(m[3], P["Z"], P["F"])
            /\ Code(last.c) = "G82" => IsDwell(m[4], P["P"])
            /\ IsRapidZ(m[Len(m)], P["R"])
\* a G82 was expanded in that state, with its comments in front
C4_Witness ==
    /\ CycleDone({"G82"})
    /\ last.pre.mode = "G90" /\ last.pre.retract = "G99"
    /\ last.pre.z < last.c.Parameters["R"]
    /\ Len(last.lines) = 7 /\ Len(Moves(last.lines)) = 5

\* C5: G83 with Q > 0 and retract height Rz above drill Z: the feed moves are at
\* Rz-Q, Rz-2Q, ... for the values above drill Z, in that order, then one at
\* drill Z; a rapid retract to Rz follows each of them.
C5_PeckStops ==
    (/\ CycleDone({"G83"})
     /\ last.c.Parameters["Q"] > 0
     /\ CycleR(last.c, last.pre) > CycleZ(last.c, last.pre)) =>
        LET P == last.c.Parameters
            rz == CycleR(last.c, last.pre)
            dz == CycleZ(last.c, last.pre)
            n == Cardinality({k \in 1..(rz - dz) : rz - k * P["Q"] > dz})
            f == Feeds(last.lines)
        IN  /\ Len(f) = n + 1
            /\ \A k \in 1..n : IsFeedZ(f[k], rz - k * P["Q"], P["F"])
            /\ IsFeedZ(f[n + 1], dz, P["F"])
            /\ \A i \in 1..Len(last.lines) :
                  IsFeed(last.lines[i]) =>
                      (i < Len(last.lines) /\ IsRapidZ(last.lines[i + 1], rz))
\* a G83 was expanded whose step does not divide the depth, with four stops
\* above the bottom, from a retract height that is the old Z
C5_Witness ==
    /\ CycleDone({"G83"})
    /\ CycleR(last.c, last.pre) = 10 /\ CycleZ(last.c, last.pre) = -7
    /\ Len(Feeds(last.lines)) = 5
\* a G83 was expanded whose step divides the depth
C5_WitnessDivides ==
    /\ CycleDone({"G83"})
    /\ CycleR(last.c, last.pre) = 5 /\ CycleZ(last.c, last.pre) = -7
    /\ Len(Feeds(last.lines)) = 3

\* C6 as stated: G83 in absolute mode with R=5, Z=-12, Q=4, current Z not above
\* R: three feed moves, at Z=1, Z=-3 and Z=-12, each followed by a rapid
\* retract to 5.
C6_PeckExampleThree ==
    (/\ CycleDone({"G83"})
     /\ last.c.Parameters["R"] = 5 /\ last.c.Parameters["Z"] = -12
     /\ last.c.Parameters["Q"] = 4
     /\ last.pre.mode = "G90" /\ last.pre.z <= 5) =>
        LET f == Feeds(last.lines)
            F == last.c.Parameters["F"]
        IN  /\ Len(f) = 3
            /\ IsFeedZ(f[1], 1, F) /\ IsFeedZ(f[2], -3, F) /\ IsFeedZ(f[3], -12, F)
            /\ \A i \in 1..Len(last.lines) :
                  IsFeed(last.lines[i]) =>
                      (i < Len(last.lines) /\ IsRapidZ(last.lines[i + 1], 5))
\* C6 amended: that cycle has five feed moves, at Z=1, -3, -7, -11 (the stops
\* 5-4k above -12) and -12, each followed by a rapid retract to 5.
C6_PeckExampleFive ==
    (/\ CycleDone({"G83"})
     /\ last.c.Parameters["R"] = 5 /\ last.c.Parameters["Z"] = -12
     /\ last.c.Parameters["Q"] = 4
     /\ last.pre.mode = "G90" /\ last.pre.z <= 5) =>
        LET f == Feeds(last.lines)
            F == last.c.Parameters["F"]
        IN  /\ Len(f) = 5
            /\ IsFeedZ(f[1], 1, F) /\ IsFeedZ(f[2], -3, F) /\ IsFeedZ(f[3], -7, F)
            /\ IsFeedZ(f[4], -11, F) /\ IsFeedZ(f[5], -12, F)
            /\ \A i \in 1..Len(last.lines) :
                  IsFeed(last.lines[i]) =>
                      (i < Len(last.lines) /\ IsRapidZ(last.lines[i + 1], 5))
\* that cycle was expanded, in millimetres
C6_Witness ==
    /\ CycleDone({"G83"})
    /\ last.c.Parameters["R"] = 5 /\ last.c.Parameters["Z"] = -12
    /\ last.c.Parameters["Q"] = 4
    /\ last.pre.mode = "G90" /\ last.pre.z <= 5 /\ UNIT_FORMAT = "mm"
    /\ Len(Feeds(last.lines)) = 5

\* C7: without comments a message command adds no text and leaves the text
\* gathered before it as it was.
C7_MessageSkipped ==
    [][(last'.act = "cmd" /\ Code(last'.c) = "message" /\ ~OUTPUT_COMMENTS)
         => (out' = out /\ outIsList' = outIsList)]_vars
\* C8: after the preamble export() writes a units line only if the preamble
\* names none of G70/G71/G20/G21 and a motion-mode line only if it names
\* neither G90 nor G91; no units line selects another unit system than the
\* one the lengths are converted to.
C8_DirectivesOnlyIfPreambleSilent ==
    \A i \in 1..Len(gcode) :
        /\ gcode[i].org = "units" =>
              /\ ~\E u \in {"G70", "G71", "G20", "G21"} : PreambleHas(PREAMBLE, u)
              /\ gcode[i].toks = <<CodeTok(IF UNIT_FORMAT = "in" THEN "G70" ELSE "G71")>>
        /\ gcode[i].org = "mode" =>
              ~(PreambleHas(PREAMBLE, "G90") \/ PreambleHas(PREAMBLE, "G91"))

\* C9: the second of two exports of the same tree with the same option string
\* writes the same text as the first.
C9_SecondExportSameText ==
    (run = 2 /\ pc = "done" /\ file1.written) => file.text = file1.text

\* C10: a motion command with axis value v processed in relative mode sets
\* that axis of the cached position to the previous value plus v.
C10_RelativeMoveAdds ==
    (CmdDone /\ IsMotion(last.c) /\ last.pre.mode = "G91") =>
        /\ "X" \in Dom(last.c) => CURRENT_X = last.pre.x + last.c.Parameters["X"]
        /\ "Y" \in Dom(last.c) => CURRENT_Y = last.pre.y + last.c.Parameters["Y"]
        /\ "Z" \in Dom(last.c) => CURRENT_Z = last.pre.z + last.c.Parameters["Z"]

\* C11: a command whose translated code is suppressed adds exactly one line,
\* "(" code parameters ")" ended by a newline; with line numbers on the line
\* has the number the counter held and the counter advances by one increment,
\* with line numbers off the counter stays.
C11_SuppressedAsComment ==
    (CmdDone /\ Code(last.c) \in SUPPRESS_COMMANDS) =>
        /\ Len(last.lines) = 1
        /\ LET t == last.lines[1].toks
           IN  /\ Len(t) = 3 + Cardinality(PrintedParams(last.c))
               /\ t[1] = OpenTok /\ t[2] = CodeTok(Code(last.c))
               /\ t[Len(t)] = CloseTok
               /\ \A i \in 3..(Len(t) - 1) : t[i].k \in {"num", "raw"}
        /\ last.lines[1].nl
        /\ IF OUTPUT_LINE_NUMBERS
           THEN last.lines[1].n = last.pre.nr /\ LINENR = last.pre.nr + LINEINCR
           ELSE last.lines[1].n = NoNum /\ LINENR = last.pre.nr
\* a G17 was written as a numbered comment after other lines of the leaf
C11_Witness ==
    /\ CmdDone /\ Code(last.c) = "G17" /\ OUTPUT_LINE_NUMBERS
    /\ Len(last.lines) = 1 /\ last.lines[1].n = last.pre.nr
    /\ last.lines[1].toks = <<OpenTok, CodeTok("G17"), CloseTok>>
    /\ last.pre.prev.same

\* the text export() holds: what it has gathered, the leaf's buffer and the
\* buffer of the cycle being expanded
TextSoFar == gcode \o out \o trBuff
\* C12: with line numbers off no step changes the counter and no line has a
\* number; with line numbers on every line has one number, one increment above
\* the line before it, and a step that adds k lines advances the counter by k
\* increments (a step that ends export() with an exception adds none).
C12_CounterFollowsLines ==
    /\ [](~outIsList =>
            \A i \in 1..Len(TextSoFar) :
                /\ (TextSoFar[i].n # NoNum) = OUTPUT_LINE_NUMBERS
                /\ (OUTPUT_LINE_NUMBERS /\ i > 1) =>
                       TextSoFar[i].n = TextSoFar[i - 1].n + LINEINCR)
    /\ [][/\ ~OUTPUT_LINE_NUMBERS' => LINENR' = LINENR
          /\ (OUTPUT_LINE_NUMBERS' /\ pc' # "failed" /\ ~outIsList') =>
                LINENR' = LINENR + LINEINCR *
                    (IF last'.act = "export" THEN Len(gcode')
                     ELSE Len(TextSoFar') - Len(TextSoFar))]_vars
\* an export without line numbers was followed by one with line numbers, whose
\* first line has the number the counter held before the first export
C12_Witness ==
    /\ run = 2 /\ pc = "done" /\ OUTPUT_LINE_NUMBERS
    /\ file1.written /\ Len(file1.text) > 3 /\ file1.text[1].n = NoNum
    /\ file.written /\ file.text[1].n = LINENR_START
    /\ LINENR = LINENR_START + LINEINCR * Len(file.text)

\* C14: an export whose option string is malformed (here: a precision that is
\* no number of digits) ends before any emission: no line generated, the line
\* counter as it was, no file written.
C14_MalformedOptionsNoEmission ==
    /\ (last.act = "export" /\ PRECISION = NotDigits) =>
          (pc = "aborted" /\ gcode = << >> /\ LINENR = last.pre.nr)
    /\ PRECISION = NotDigits => ~file.written

\* the parameters a cycle must carry
Needs(code) ==
    {"X", "Y", "Z", "R", "F"} \cup (IF code = "G83" THEN {"Q"} ELSE {})
                              \cup (IF code = "G82" THEN {"P"} ELSE {})
\* C13: a cycle that lacks one of X, Y, Z, R, F (Q for G83, P for G82) ends
\* export() with an exception: the step adds nothing to the leaf's text or to
\* the export's and no file is written afterwards; a G81 without Q and P and a
\* G83 without P, in absolute mode with R above the current Z, do not fail.
C13_MissingParameterFails ==
    /\ [][(last'.act = "cmd" /\ Code(last'.c) \in DRILL_CYCLES
            /\ ~(Needs(Code(last'.c)) \subseteq Dom(last'.c))) =>
              (pc' = "failed" /\ last'.lines = << >> /\ out' = out
               /\ gcode' = gcode /\ ~file'.written)]_vars
    /\ [](pc = "failed" => ~file.written)
    /\ []((CmdDone /\ Code(last.c) \in DRILL_CYCLES
            /\ Needs(Code(last.c)) \subseteq Dom(last.c)
            /\ last.pre.mode = "G90" /\ last.pre.z < last.c.Parameters["R"]) =>
              (pc # "failed" /\ last.lines # << >>))
\* a G83 without Q has ended the export after other lines of the same leaf
C13_Witness ==
    /\ pc = "failed" /\ CmdDone /\ Code(last.c) = "G83" /\ "Q" \notin Dom(last.c)
    /\ {"X", "Y", "Z", "R", "F"} \subseteq Dom(last.c)
    /\ last.pre.prev.same /\ out # << >> /\ ~file.written

\* C19: the loop of a G83 expansion ends: every turn that does not leave the
\* loop brings the next stop nearer to drill Z.
C19_PeckLoopAdvances ==
    [][(pc = "peck" /\ pc' = "peck") =>
          next_Stop_Z' - drill.Z < next_Stop_Z - drill.Z]_vars

\* What the machine does with the text: a line that is no comment sets the
\* motion mode with G90/G91 and moves the tool in Z when it has a Z word, to
\* the value in absolute mode and by the value in relative mode.  The tool
\* starts at Z = 0, where the emitter's cached position starts.
IsLive(line) ==
    /\ line.org \in {"preamble", "mode", "command", "cycle"}
    /\ line.toks # << >> /\ line.toks[1] # OpenTok
HasTok(line, tok) == \E i \in 1..Len(line.toks) : line.toks[i] = tok
\* the value in mm of the word of a line (millimetre output)
WordOf(line, letter) ==
    LET i == CHOOSE j \in 1..Len(line.toks) :
                 line.toks[j].k = "num" /\ line.toks[j].s = letter
    IN  line.toks[i].v \div Pow10(line.toks[i].d)
RECURSIVE ToolZ(_, _)
ToolZ(text, n) ==
    IF n = 0 THEN [z |-> 0, rel |-> FALSE]
    ELSE LET before == ToolZ(text, n - 1)
             l == text[n]
             rel == IF IsLive(l) /\ HasTok(l, CodeTok("G91")) THEN TRUE
                    ELSE IF IsLive(l) /\ HasTok(l, CodeTok("G90")) THEN FALSE
                    ELSE before.rel
         IN  [ rel |-> rel,
               z |-> IF IsLive(l) /\ "Z" \in Letters(l)
                     THEN (IF rel THEN before.z + WordOf(l, "Z") ELSE WordOf(l, "Z"))
                     ELSE before.z ]
\* the place in ls of the cycle's rapid X/Y move
XYMove(ls) ==
    CHOOSE i \in 1..Len(ls) : ls[i].org = "cycle" /\ "X" \in Letters(ls[i])

\* C15: when a cycle expansion emits its rapid X/Y move, the Z the tool has by
\* the lines written before that move is at or above the cycle's retract Z
\* (millimetre output).
C15_RapidXYAtOrAboveRetract ==
    (CycleDone(DRILL_CYCLES) /\ UNIT_FORMAT = "mm" /\ ~outIsList) =>
        LET text == gcode \o out
            at == Len(text) - Len(last.lines) + XYMove(last.lines)
        IN  ToolZ(text, at - 1).z >= CycleR(last.c, last.pre)

\* C16: after a cycle command the cached position is the drilled one: X and Y
\* the cycle's absolute drill X and Y, Z the retract height the expansion
\* left the tool at.
C16_PositionAfterCycle ==
    CycleDone(DRILL_CYCLES) =>
        LET P == last.c.Parameters
            rel == last.pre.mode = "G91"
        IN  /\ CURRENT_X = (IF rel THEN last.pre.x + P["X"] ELSE P["X"])
            /\ CURRENT_Y = (IF rel THEN last.pre.y + P["Y"] ELSE P["Y"])
            /\ CURRENT_Z = CycleR(last.c, last.pre)

\* C17: every line the engine writes ends with a newline (the lines of the
\* preamble and postamble texts end as the caller wrote them).
C17_EveryLineEndsWithNewline ==
    \A i \in 1..Len(TextSoFar) :
        TextSoFar[i].org \notin {"preamble", "postamble"} => TextSoFar[i].nl

\* the stops of a peck cycle above the bottom
PeckStops(rz, dz, q) == {rz - k * q : k \in 1..MaxPecks} \cap {z \in Int : z > dz}
\* C18: a cycle expanded in relative mode: after the comments, a G90 line, then
\* the moves, then a G91 line; the one X/Y move goes to the cached position plus
\* X and Y, the rapid Z moves to the retract height cached Z + R (or the cached
\* Z), the feed moves to cached Z + Z, the last one exactly (for G83 the stops
\* before it are retract height - k Q); MOTION_MODE is still G91.  A cycle
\* expanded in absolute mode writes neither G90 nor G91.
C18_RelativeCycleAbsoluteMoves ==
    /\ (CycleDone(DRILL_CYCLES) /\ last.pre.mode = "G91") =>
          LET P == last.c.Parameters
              m == Moves(last.lines)
              rz == CycleR(last.c, last.pre)
              dz == last.pre.z + P["Z"]
              f == Feeds(m)
          IN  /\ CommentsFirst(last.lines) /\ Len(m) >= 5
              /\ m[1].toks = <<CodeTok("G90")>>
              /\ m[Len(m)].toks = <<CodeTok("G91")>>
              /\ MOTION_MODE = "G91"
              /\ IsRapidZ(m[Len(m) - 1], rz)
              /\ IsFeedZ(f[Len(f)], dz, P["F"])
              /\ \A i \in 2..(Len(m) - 1) :
                    \/ IsRapidXY(m[i], last.pre.x + P["X"], last.pre.y + P["Y"])
                       /\ i = XYMove(m)
                    \/ IsRapidZ(m[i], rz) \/ IsRapidZ(m[i], last.pre.z)
                    \/ IsFeedZ(m[i], dz, P["F"])
                    \/ Code(last.c) = "G83" /\
                       \E z \in PeckStops(rz, dz, P["Q"]) : IsFeedZ(m[i], z, P["F"])
                    \/ Code(last.c) = "G82" /\ IsDwell(m[i], P["P"])
    /\ (CycleDone(DRILL_CYCLES) /\ last.pre.mode = "G90") =>
          /\ MOTION_MODE = "G90"
          /\ \A i \in 1..Len(last.lines) :
                last.lines[i].org = "cycle" =>
                    ~(HasTok(last.lines[i], CodeTok("G90"))
                      \/ HasTok(last.lines[i], CodeTok("G91")))
\* a G83 was expanded in relative mode away from the origin, with its comments,
\* a stop above the bottom and the G90 and G91 lines around the moves
C18_Witness ==
    /\ CycleDone({"G83"}) /\ last.pre.mode = "G91"
    /\ last.pre.x # 0 /\ last.pre.z # 0 /\ OUTPUT_COMMENTS
    /\ Len(Feeds(last.lines)) = 2
    /\ Moves(last.lines)[1].toks = <<CodeTok("G90")>>

\* C20: an axis injected into the first move or the move after a tool change
\* (a motion command that has parameters)
\* is printed as an explicit parameter of that value would be: the cached
\* position converted to the output length unit.
C20_InjectedAxisInOutputUnit ==
    (CmdDone /\ IsMotion(last.c) /\ Dom(last.c) # {} /\ last.pre.som6
             /\ pc # "failed") =>
        /\ Len(last.lines) = 1
        /\ \A a \in Axes \ Dom(last.c) :
              HasTok(last.lines[1],
                     LenTok(a, AxisOf(<<CURRENT_X, CURRENT_Y, CURRENT_Z>>, a)))

\* the place of a letter in params
ParamIndex(letter) == CHOOSE i \in 1..Len(params) : params[i] = letter
\* the tokens of a line without the parentheses of a suppressed command
Unwrapped(toks) == SelectSeq(toks, LAMBDA t : t \notin {OpenTok, CloseTok})
\* the tokens of a line after its code token, if it has one
ParamPart(toks) ==
    LET u == Unwrapped(toks)
    IN  IF u # << >> /\ u[1].k = "code" THEN Tail(u) ELSE u
CanonicalOrder(line) ==
    LET b == ParamPart(line.toks)
    IN  /\ \A i \in 1..Len(b) :
              /\ b[i].k \in {"num", "raw"}
              /\ \E n \in 1..Len(params) : params[n] = b[i].s
        /\ \A i, j \in 1..Len(b) :
              i < j => ParamIndex(b[i].s) < ParamIndex(b[j].s)

\* C21: on every line emitted for a command the code token, if any, comes
\* first and the parameters follow in the order X, Y, Z, A, B, I, J, F, S, T,
\* Q, R, L, P; a motion command's line carries the parameters the command has
\* and, when the axes were forced, the axes it lacks, in that same order, with
\* the code token or without it.
C21_CanonicalParameterOrder ==
    CmdDone =>
        \A i \in 1..Len(last.lines) :
            last.lines[i].org = "command" =>
                /\ CanonicalOrder(last.lines[i])
                /\ IsMotion(last.c) =>
                      Letters(last.lines[i]) =
                          PrintedParams(last.c) \cup
                          (IF last.pre.som6 THEN Axes ELSE {})
\* C21: after a tool change an arc with Y, A, J, F and S got X in front of Y
\* and Z between Y and A
C21_Witness ==
    /\ CmdDone /\ last.pre.som6 /\ last.pre.tc
    /\ Dom(last.c) = {"Y", "A", "J", "F", "S"}
    /\ \E i \in 1..Len(last.lines) :
          /\ last.lines[i].org = "command"
          /\ Len(last.lines[i].toks) = 8
          /\ last.lines[i].toks[1].k = "code"
          /\ [n \in 2..8 |-> last.lines[i].toks[n].s] =
                 [n \in 2..8 |-> <<"", "X", "Y", "Z", "A", "J", "F", "S">>[n]]

IsArc(c) == Code(c) \in {"G2", "G02", "G3", "G03"}
\* the line a command printed has the length q under the letter
PrintedLength(letter, q) ==
    \E i \in 1..Len(last.lines) :
        /\ last.lines[i].org = "command"
        /\ HasTok(last.lines[i], LenTok(letter, q))

\* C22: an arc in absolute mode that was emitted prints I as its I offset plus
\* the X the cached position had before the command, and J as its J offset
\* plus that Y; the command's own X and Y are in the cached position only
\* afterwards, where the next command finds them.
C22_ArcCentreFromStart ==
    (CmdDone /\ IsArc(last.c) /\ last.pre.mode = "G90" /\ pc # "failed") =>
        /\ "I" \in Dom(last.c) =>
              PrintedLength("I", last.c.Parameters["I"] + last.pre.x)
        /\ "J" \in Dom(last.c) =>
              PrintedLength("J", last.c.Parameters["J"] + last.pre.y)
        /\ "X" \in Dom(last.c) => CURRENT_X = last.c.Parameters["X"]
        /\ "Y" \in Dom(last.c) => CURRENT_Y = last.c.Parameters["Y"]
\* C22: G2 to (0, 10) with I-10 J0 right after G3 to (20, 30): the centre is
\* printed from the end point of the G3, I10 J30 in mm, and the cached
\* position is then the end point of the G2
C22_Witness ==
    /\ CmdDone /\ Code(last.c) = "G2" /\ last.pre.mode = "G90" /\ pc # "failed"
    /\ last.pre.lastc = "G3"
    /\ last.pre.x = 20 /\ last.pre.y = 30
    /\ Dom(last.c) = {"X", "Y", "I", "J", "F"}
    /\ PrintedLength("I", 10) /\ PrintedLength("J", 30)
    /\ CURRENT_X = 0 /\ CURRENT_Y = 10

====
